---- MODULE Spec2Model ----
(***************************************************************************)
(* Model of attacks/arithmetic/operations.py: the constructors of the      *)
(* SignedAdder and Compare circuits, and the action of the circuits they   *)
(* build on computational-basis states.  Every gate used is a permutation  *)
(* of basis states, so a basis state is a record of register contents and  *)
(* a gate is a function on such records.  Registers are little-endian:     *)
(* a register of `bits` qubits is the number sum(q[i] * 2^i), and the sign *)
(* qubit nums[i][-1] is the most significant one.                          *)
(***************************************************************************)
EXTENDS Integers, Sequences, FiniteSets, TLC

VARIABLES kind, bits, geq, pc, circuit, self, q, ip, input

vars == <<kind, bits, geq, pc, circuit, self, q, ip, input>>

\* largest register width explored (sign qubit + magnitude qubits)
MaxBits == 3

Widths == 2..MaxBits

\* the relation tags Compare accepts
Relations == {"=", ">", "<", ">=", "<="}

\* relation arguments a caller may pass, one of them invalid
GeqInputs == Relations \cup {"!="}

----------------------------------------------------------------------------
(* Bit arithmetic on registers                                             *)

Pow2(n) == 2 ^ n

RECURSIVE Xor(_, _)
Xor(x, y) ==
  IF x = 0 THEN y
  ELSE IF y = 0 THEN x
  ELSE (((x % 2) + (y % 2)) % 2) + 2 * Xor(x \div 2, y \div 2)

\* sign qubit and magnitude qubits of a bits-wide register
Sgn(b, x) == x \div Pow2(b - 1)
Mag(b, x) == x % Pow2(b - 1)

MagMask(b) == Pow2(b - 1) - 1
SgnMask(b) == Pow2(b - 1)

\* the signed integer a sign-magnitude register denotes
Value(b, x) == IF Sgn(b, x) = 1 THEN 0 - Mag(b, x) ELSE Mag(b, x)

Abs(n) == IF n < 0 THEN 0 - n ELSE n

\* largest representable magnitude
MaxMag(b) == Pow2(b - 1) - 1

----------------------------------------------------------------------------
(* Basis states                                                            *)

\* all ancillas and the result zero, operands a and b
ZeroAncillas(a, b) ==
  [num1 |-> a, num2 |-> b, cout |-> 0, helper |-> 0, c_cout |-> 0,
   one |-> 0, zero_flag |-> 0, result |-> 0]

----------------------------------------------------------------------------
(* Gates                                                                   *)

Gate(g, reg, mask) == [g |-> g, reg |-> reg, mask |-> mask]

\* circuit.x(reg[...]) on the qubits selected by mask
XGate(reg, mask) == Gate("x", reg, mask)

\* controlled_X(bits - 1) bound to [reg[-1], *reg[:-1]]
CXGate(reg) == Gate("controlled_X", reg, 0)

\* one control (the sign qubit), bits-1 targets (the magnitude qubits)
controlled_X(b, x) == IF Sgn(b, x) = 1 THEN Xor(x, MagMask(b)) ELSE x

\* CDKMRippleCarryAdder(bits, kind="half") on [a, b, cout, help]
CDKMRippleCarryAdder(b, s) ==
  LET sum == s.num1 + s.num2 + s.helper
  IN [s EXCEPT !.num2 = sum % Pow2(b),
               !.cout = Xor(@, sum \div Pow2(b))]

\* controlled_adder(bits) on [ctrl = cout, a = one, b = num2, c_cout, helper]
controlled_adder(b, s) ==
  IF s.cout = 1
  THEN LET sum == s.one + s.num2 + s.helper
       IN [s EXCEPT !.num2 = sum % Pow2(b),
                    !.c_cout = Xor(@, sum \div Pow2(b))]
  ELSE s

\* circuit.mcx(val_2, is_zero)
mcx_val_2(b, s) ==
  IF Mag(b, s.num2) = MagMask(b)
  THEN [s EXCEPT !.zero_flag = 1 - @] ELSE s

\* circuit.cx(is_zero, result)
cx_is_zero(s) == IF s.zero_flag = 1 THEN [s EXCEPT !.result = 1 - @] ELSE s

\* circuit.mcx([*sgn_2, *is_zero], result)
mcx_sgn_2(b, s) ==
  IF Sgn(b, s.num2) = 1 /\ s.zero_flag = 1
  THEN [s EXCEPT !.result = 1 - @] ELSE s

\* the end-around carry correction left out
SignedAdderCircuit_NoEndAround(b) ==
  << XGate("one", 1),
     CXGate("num1"), CXGate("num2"),
     Gate("CDKMRippleCarryAdder", "-", 0),
     XGate("one", 1),
     CXGate("num1"), CXGate("num2") >>

\* the conversion back to sign-magnitude applied to num1 only
SignedAdderCircuit_NoBackConversion(b) ==
  << XGate("one", 1),
     CXGate("num1"), CXGate("num2"),
     Gate("CDKMRippleCarryAdder", "-", 0),
     Gate("controlled_adder", "-", 0),
     XGate("one", 1),
     CXGate("num1") >>

\* circuit.x(one) in place of circuit.x(one[0])
SignedAdderCircuit_FlipAllOne(b) ==
  << XGate("one", Pow2(b) - 1),
     CXGate("num1"), CXGate("num2"),
     Gate("CDKMRippleCarryAdder", "-", 0),
     Gate("controlled_adder", "-", 0),
     XGate("one", Pow2(b) - 1),
     CXGate("num1"), CXGate("num2") >>

\* the gate sequence SignedAdder.__init__ puts in its circuit
SignedAdderCircuit(b) ==
  << XGate("one", 1),
     CXGate("num1"), CXGate("num2"),
     Gate("CDKMRippleCarryAdder", "-", 0),
     Gate("controlled_adder", "-", 0),
     XGate("one", 1),
     CXGate("num1"), CXGate("num2") >>

RECURSIVE RunGates(_, _, _)
ApplyGate(gate, b, s) ==
  CASE gate.g = "x" -> [s EXCEPT ![gate.reg] = Xor(@, gate.mask)]
    [] gate.g = "controlled_X" -> [s EXCEPT ![gate.reg] = controlled_X(b, @)]
    [] gate.g = "CDKMRippleCarryAdder" -> CDKMRippleCarryAdder(b, s)
    [] gate.g = "controlled_adder" -> controlled_adder(b, s)
    [] gate.g = "Subtract" -> RunGates(SignedAdderCircuit(b), b, s)
    [] gate.g = "mcx_val_2" -> mcx_val_2(b, s)
    [] gate.g = "cx_is_zero" -> cx_is_zero(s)
    [] gate.g = "mcx_sgn_2" -> mcx_sgn_2(b, s)

RunGates(gs, b, s) ==
  IF gs = <<>> THEN s
  ELSE RunGates(Tail(gs), b, ApplyGate(Head(gs), b, s))

----------------------------------------------------------------------------
(* Gate sequences of Compare.__init__                                      *)

\* circuit.x(sgn_2)
NegateGates(b) == << XGate("num2", SgnMask(b)) >>

\* adder = SignedAdder(bits, name="Subtract"); circuit.append(adder.to_gate(), ...)
SubtractGates == << Gate("Subtract", "-", 0) >>

\* the multi-controlled NOT without the flips around it
ZeroDetectGates_NoFlip(b) == << Gate("mcx_val_2", "-", 0) >>

\* circuit.x(val_2); circuit.mcx(val_2, is_zero); circuit.x(val_2)
ZeroDetectGates(b) ==
  << XGate("num2", MagMask(b)),
     Gate("mcx_val_2", "-", 0),
     XGate("num2", MagMask(b)) >>

\* a check that lets every tag through
ValidRelation_AcceptAll(r) == r \in GeqInputs

\* if geq not in ["=", ">", "<", ">=", "<="]: raise ValueError
ValidRelation(r) == r \in Relations

\* the if / elif chain on geq
DispatchGates(b, r) ==
  IF r = "=" THEN << Gate("cx_is_zero", "-", 0) >>
  ELSE IF r \in {">", "<="}
  THEN << XGate("zero_flag", 1),
          XGate("num2", SgnMask(b)),
          Gate("mcx_sgn_2", "-", 0),
          XGate("num2", SgnMask(b)) >>
  ELSE IF r \in {"<", ">="}
  THEN << XGate("zero_flag", 1),
          Gate("mcx_sgn_2", "-", 0) >>
  ELSE << >>

\* len(geq)
RelationLen(r) == IF r \in {"=", ">", "<"} THEN 1 ELSE 2

\* the final inversion left out
InvertGates_Never(r) == << >>

\* if len(geq) > 1: circuit.x(result)
InvertGates(r) == IF RelationLen(r) > 1 THEN << XGate("result", 1) >> ELSE << >>

\* the whole circuit Compare builds for a valid relation
CompareCircuit(b, r) ==
  NegateGates(b) \o SubtractGates \o ZeroDetectGates(b)
    \o DispatchGates(b, r) \o InvertGates(r)

----------------------------------------------------------------------------
(* State machine                                                           *)

Init ==
  /\ kind = "none"
  /\ bits = 2
  /\ geq = ">"
  /\ pc = "idle"
  /\ circuit = << >>
  /\ self = << >>
  /\ q = ZeroAncillas(0, 0)
  /\ ip = 0
  /\ input = [a |-> 0, b |-> 0]

\* SignedAdder(bits): straight-line constructor
SignedAdderInit ==
  /\ pc = "idle"
  /\ \E b \in Widths :
       /\ bits' = b
       /\ circuit' = SignedAdderCircuit(b)
  /\ kind' = "SignedAdder"
  /\ self' = << "SignedAdder" >>
  /\ pc' = "built"
  /\ UNCHANGED <<geq, q, ip, input>>

\* Compare(bits, geq): registers declared, empty working circuit
CompareInit ==
  /\ pc = "idle"
  /\ \E b \in Widths, r \in GeqInputs :
       /\ bits' = b
       /\ geq' = r
  /\ kind' = "Compare"
  /\ circuit' = << >>
  /\ pc' = "negate"
  /\ UNCHANGED <<self, q, ip, input>>

CompareNegate ==
  /\ pc = "negate"
  /\ circuit' = circuit \o NegateGates(bits)
  /\ pc' = "subtract"
  /\ UNCHANGED <<kind, bits, geq, self, q, ip, input>>

CompareSubtract ==
  /\ pc = "subtract"
  /\ circuit' = circuit \o SubtractGates
  /\ pc' = "zero_detect"
  /\ UNCHANGED <<kind, bits, geq, self, q, ip, input>>

CompareZeroDetect ==
  /\ pc = "zero_detect"
  /\ circuit' = circuit \o ZeroDetectGates(bits)
  /\ pc' = "validate"
  /\ UNCHANGED <<kind, bits, geq, self, q, ip, input>>

CompareValidate ==
  /\ pc = "validate"
  /\ pc' = IF ValidRelation(geq) THEN "dispatch" ELSE "ValueError"
  /\ UNCHANGED <<kind, bits, geq, circuit, self, q, ip, input>>

CompareDispatch ==
  /\ pc = "dispatch"
  /\ circuit' = circuit \o DispatchGates(bits, geq)
  /\ pc' = "invert"
  /\ UNCHANGED <<kind, bits, geq, self, q, ip, input>>

CompareInvert ==
  /\ pc = "invert"
  /\ circuit' = circuit \o InvertGates(geq)
  /\ pc' = "append"
  /\ UNCHANGED <<kind, bits, geq, self, q, ip, input>>

\* self.append(circuit.to_gate(label=name), self.qubits)
CompareAppend ==
  /\ pc = "append"
  /\ self' = << "Compare" >>
  /\ pc' = "built"
  /\ UNCHANGED <<kind, bits, geq, circuit, q, ip, input>>

\* a basis state with operands a, b and zeroed ancillas enters the circuit
Prepare ==
  /\ pc = "built"
  /\ \E a \in 0..(Pow2(bits) - 1), b \in 0..(Pow2(bits) - 1) :
       /\ q' = ZeroAncillas(a, b)
       /\ input' = [a |-> a, b |-> b]
  /\ ip' = 1
  /\ pc' = "run"
  /\ UNCHANGED <<kind, bits, geq, circuit, self>>

\* the next gate of the built circuit acts on the state
ApplyNext ==
  /\ pc = "run"
  /\ ip <= Len(circuit)
  /\ q' = ApplyGate(circuit[ip], bits, q)
  /\ ip' = ip + 1
  /\ pc' = IF ip = Len(circuit) THEN "done" ELSE "run"
  /\ UNCHANGED <<kind, bits, geq, circuit, self, input>>

Next ==
  \/ SignedAdderInit
  \/ CompareInit
  \/ CompareNegate
  \/ CompareSubtract
  \/ CompareZeroDetect
  \/ CompareValidate
  \/ CompareDispatch
  \/ CompareInvert
  \/ CompareAppend
  \/ Prepare
  \/ ApplyNext

Spec == Init /\ [][Next]_vars

----------------------------------------------------------------------------
TypeOK ==
  /\ kind \in {"none", "SignedAdder", "Compare"}
  /\ bits \in Widths
  /\ geq \in GeqInputs
  /\ q.num1 \in 0..(Pow2(bits) - 1)
  /\ q.num2 \in 0..(Pow2(bits) - 1)

----------------------------------------------------------------------------
(* Properties of SignedAdder                                               *)

\* a simulated run of the circuit of SignedAdder / Compare has finished
AdderDone == pc = "done" /\ kind = "SignedAdder"
CompareDone == pc = "done" /\ kind = "Compare"

\* the signed integers the input registers denote
A == Value(bits, input.a)
B == Value(bits, input.b)

InRange(b, n) == Abs(n) <= MaxMag(b)

\* C1: when a+b is representable, SignedAdder leaves num2 a sign-magnitude
\* encoding of a+b (either zero encoding when a+b = 0) and num1 as it was.
C1_SumInRange ==
  (AdderDone /\ InRange(bits, A + B)) =>
    /\ Value(bits, q.num2) = A + B
    /\ q.num1 = input.a

\* bits=3, a=2, b=-1: num2 ends with sign 0 and magnitude 01
C1_Witness ==
  /\ AdderDone /\ bits = 3
  /\ input.a = 2 /\ input.b = 5
  /\ q.num2 = 1 /\ q.num1 = 2

\* C3 as stated: for all a, b the magnitude of num2 is |a+b| mod 2^(bits-1),
\* its sign is the sign of a+b, and num1 is unchanged.
C3_MagnitudeWraparound ==
  AdderDone =>
    /\ Mag(bits, q.num2) = Abs(A + B) % Pow2(bits - 1)
    /\ (A + B > 0 => Sgn(bits, q.num2) = 0)
    /\ (A + B < 0 => Sgn(bits, q.num2) = 1)
    /\ q.num1 = input.a

\* C3 amended: for all a, b the value of num2 is congruent to a+b modulo
\* 2^bits - 1 (end-around carry), and num1 is unchanged.
C3_EndAroundWraparound ==
  AdderDone =>
    /\ (Value(bits, q.num2) - (A + B)) % (Pow2(bits) - 1) = 0
    /\ q.num1 = input.a

\* an overflowing sum: 3 + 3 at bits=3 ends as -1
C3_Witness ==
  /\ AdderDone /\ ~InRange(bits, A + B)
  /\ bits = 3 /\ input.a = 3 /\ input.b = 3
  /\ Value(bits, q.num2) = 0 - 1

\* C8: after SignedAdder the `one` register, the helper and the first
\* carry-out cout are all zero again.
C8_AncillasRestored ==
  AdderDone => (q.one = 0 /\ q.helper = 0 /\ q.cout = 0)

\* C10: the second carry-out c_cout is 0 at the end for every a, b, because
\* whenever the first addition sets cout the truncated sum is at most
\* 2^bits - 2 when the cout-gated addition of 1 is about to act.
C10_SecondCarryZero ==
  /\ AdderDone => q.c_cout = 0
  /\ (pc = "run" /\ kind = "SignedAdder" /\ ip = 5 /\ q.cout = 1)
       => q.num2 <= Pow2(bits) - 2

\* the first addition carried and the correction was applied
C10_Witness == AdderDone /\ q.cout = 1 /\ q.c_cout = 0 /\ q.num2 # 0

----------------------------------------------------------------------------
(* Properties of Compare                                                   *)

\* the standard order on signed integers
Holds(r, x, y) ==
  CASE r = "=" -> x = y
    [] r = ">" -> x > y
    [] r = "<" -> x < y
    [] r = ">=" -> x >= y
    [] r = "<=" -> x <= y

\* the result unit of Compare(b, r) on operands a, b with zeroed ancillas
CompareResult(b, r, x, y) ==
  RunGates(CompareCircuit(b, r), b, ZeroAncillas(x, y)).result

\* C2: for each ordering relation and all representable a, b the result
\* unit ends 1 iff `a relation b` holds.
C2_OrderingCorrect ==
  (CompareDone /\ geq \in {">", "<", ">=", "<="}) =>
    (q.result = 1 <=> Holds(geq, A, B))

\* C4: Compare(bits, "=") ends with result 1 exactly when the operands are
\* numerically equal, the two encodings of zero counting as equal.
C4_EqualityCorrect ==
  (CompareDone /\ geq = "=") => (q.result = 1 <=> A = B)

\* bits=3, a = -0, b = +0: result 1, difference register -0
C4_Witness ==
  /\ CompareDone /\ geq = "=" /\ bits = 3
  /\ input.a = 4 /\ input.b = 0
  /\ q.result = 1 /\ q.num2 = 4

\* C5: after Compare the first operand is unchanged, the second operand's
\* register holds the sign-magnitude encoding of a-b (magnitude wrapped to
\* the register width, sign that of a-b), whatever the relation.
C5_DifferenceLeft ==
  CompareDone =>
    /\ q.num1 = input.a
    /\ Mag(bits, q.num2) = Abs(A - B) % Pow2(bits - 1)
    /\ (A - B > 0 => Sgn(bits, q.num2) = 0)
    /\ (A - B < 0 => Sgn(bits, q.num2) = 1)
    /\ q.num2 = RunGates(CompareCircuit(bits, "="), bits,
                         ZeroAncillas(input.a, input.b)).num2

\* C6: the result of ">" is the negation of the result of "<=" on the same
\* operands, and the result of "<" the negation of that of ">=".
C6_Complementarity ==
  CompareDone =>
    /\ geq = ">" => q.result = 1 - CompareResult(bits, "<=", input.a, input.b)
    /\ geq = "<=" => q.result = 1 - CompareResult(bits, ">", input.a, input.b)
    /\ geq = "<" => q.result = 1 - CompareResult(bits, ">=", input.a, input.b)
    /\ geq = ">=" => q.result = 1 - CompareResult(bits, "<", input.a, input.b)

\* a pair whose difference overflows, under ">"
C6_Witness ==
  /\ CompareDone /\ geq = ">" /\ ~InRange(bits, A - B)
  /\ CompareResult(bits, "<=", input.a, input.b) = 1 - q.result

C9_CompareAncillasRestored ==
  CompareDone =>
    (q.cout = 0 /\ q.helper = 0 /\ q.one = 0 /\ q.zero_flag = 0)

====
